---- MODULE Spec2Model ----
(***************************************************************************)
(* A model of the go-rss feed pipeline: the cancellable fetch              *)
(* (ReadWithClient), the stream decoders (ParseRegular, ParseAtom) and the *)
(* response-owning readers (Regular, Atom), driven by a caller that        *)
(* follows the usage shown in the package documentation and the tests.     *)
(***************************************************************************)
EXTENDS Integers, Sequences, FiniteSets, TLC

VARIABLES
    ctx,        \* state of the caller's context: "active", "canceled", "deadline"
    ctxKind,    \* how the context was made: "background", "cancel", "timeout"
    plan,       \* what the caller does: fetch, defer a Close, which reader
    url,        \* ReadWithClient's url argument
    reddit,     \* ReadWithClient's reddit argument
    doc,        \* the tokens the stream (response body or reader) yields
    pc,         \* position of the caller / of the call in progress
    req,        \* the request ReadWithClient built
    doCalls,    \* number of client.Do invocations
    doRet,      \* what client.Do returned
    fetchRet,   \* what ReadWithClient returned
    body,       \* the stream: bytes consumed and the Close calls it received
    deferred,   \* the caller registered `defer resp.Body.Close()`
    seen,       \* context state observed by the reader's entry check
    firedAt,    \* position of the call when the context fired, or "never"
    parseRet,   \* what the reader returned
    date,       \* the Date string a caller holds
    layout,     \* the layout the caller passes to Format and MustFormat
    dParse,     \* what date.Parse() returned
    dFormat,    \* what date.Format(layout) returned
    dMust,      \* what date.MustFormat(layout) returned
    dBack,      \* what Date(formatted).ParseWithFormat(layout) returned
    dDone,      \* the Date operations the caller has applied
    mode,       \* several calls: "concurrent" with own contexts, "sequence" sharing one
    octx,       \* several calls: the state of each context
    ops         \* several calls: arguments, position and result of each call

dvars == <<date, layout, dParse, dFormat, dMust, dBack, dDone>>

mvars == <<mode, octx, ops>>

pvars == <<ctx, ctxKind, plan, url, reddit, doc, pc, req, doCalls, doRet,
           fetchRet, body, deferred, seen, firedAt, parseRet>>

vars == <<ctx, ctxKind, plan, url, reddit, doc, pc, req, doCalls, doRet,
          fetchRet, body, deferred, seen, firedAt, parseRet, dvars, mvars>>

----------------------------------------------------------------------------
(* Bounds *)

MaxItems == 2

\* number of calls made side by side or one after the other
NumOps == 2

----------------------------------------------------------------------------
(* Errors: a message, the status fields of an HTTP error, and the chain of  *)
(* wrapped errors (outermost first) that %w keeps.                          *)

NilErr == [msg |-> "", code |-> 0, status |-> "", cause |-> <<>>]

NewError(m) == [msg |-> m, code |-> 0, status |-> "", cause |-> <<>>]

Canceled == NewError("context canceled")

DeadlineExceeded == NewError("context deadline exceeded")

\* fmt.Errorf("<m>: %w", e)
Errorf(m, e) == [msg |-> m, code |-> 0, status |-> "", cause |-> <<e.msg>> \o e.cause]

\* err.Error(): the message followed by the messages of the wrapped chain
ErrorText(e) == <<e.msg>> \o e.cause

Contains(e, s) == \E i \in 1..Len(ErrorText(e)) : ErrorText(e)[i] = s

----------------------------------------------------------------------------
(* Context *)

CtxDone(c) == c # "active"

\* ctx.Err()
CtxErr(c) == IF c = "canceled" THEN Canceled
             ELSE IF c = "deadline" THEN DeadlineExceeded
             ELSE NilErr

----------------------------------------------------------------------------
(* Streams: a document is a sequence of XML tokens.                         *)

O(n) == [t |-> "open", n |-> n]
C(n) == [t |-> "close", n |-> n]
T(s) == [t |-> "text", n |-> s]

\* Texts of the title elements of the items and entries.
Titles == {"a", "b"}

\* Every sequence of at most MaxItems titles, repeated titles included.
TitleSeqs == UNION {[1..n -> Titles] : n \in 0..MaxItems}

RECURSIVE Items(_)
Items(ts) == IF Len(ts) = 0 THEN <<>>
             ELSE <<O("item"), O("title"), T(ts[1]), C("title"), C("item")>>
                  \o Items([i \in 1..(Len(ts) - 1) |-> ts[i + 1]])

RECURSIVE Entries(_)
Entries(ts) == IF Len(ts) = 0 THEN <<>>
               ELSE <<O("entry"), O("title"), T(ts[1]), C("title"), C("entry")>>
                    \o Entries([i \in 1..(Len(ts) - 1) |-> ts[i + 1]])

\* <rss><channel><title>Test Channel</title> items... </channel></rss>
RSSFeed(ts) == <<O("rss"), O("channel"), O("title"), T("Test Channel"), C("title")>>
               \o Items(ts) \o <<C("channel"), C("rss")>>

\* <feed> entries... </feed>
AtomFeed(ts) == <<O("feed")>> \o Entries(ts) \o <<C("feed")>>

RSSDoc(n) == RSSFeed([i \in 1..n |-> "a"])

AtomDoc(n) == AtomFeed([i \in 1..n |-> "a"])

Docs == {RSSFeed(ts) : ts \in TitleSeqs} \cup {AtomFeed(ts) : ts \in TitleSeqs}
        \cup { <<T("This is not valid XML")>>,
               <<O("rss"), O("channel"), C("rss")>>,
               <<O("feed"), O("entry")>> }

\* Texts of pubDate and lastBuildDate elements: a date in the WordPress layout
\* and a text that is no date.
DateTexts == {"Mon, 02 Jan 2006 15:04:05 -0700", "not a date"}

DateSeqs == UNION {[1..n -> DateTexts] : n \in 0..MaxItems}

RECURSIVE DatedItems(_)
DatedItems(ps) ==
    IF Len(ps) = 0 THEN <<>>
    ELSE <<O("item"), O("title"), T("a"), C("title"),
           O("pubDate"), T(ps[1]), C("pubDate"), C("item")>>
         \o DatedItems([i \in 1..(Len(ps) - 1) |-> ps[i + 1]])

\* An RSS document whose channel has the lastBuildDate lb and whose items have
\* the pubDates ps.
DatedFeed(lb, ps) ==
    <<O("rss"), O("channel"), O("lastBuildDate"), T(lb), C("lastBuildDate")>>
    \o DatedItems(ps) \o <<C("channel"), C("rss")>>

\* Elements no field is bound to: empty, with text, and with children that
\* carry the names of bound elements.
UnknownWithItem ==
    <<O("x"), O("item"), O("title"), T("b"), C("title"), C("item"),
      O("entry"), C("entry"), O("lastBuildDate"), T("not a date"),
      C("lastBuildDate"), C("x")>>

Unknown == { <<O("x"), C("x")>>, <<O("x"), T("a"), C("x")>>, UnknownWithItem }

\* The document d with the element e added after its token i.
Insert(d, i, e) == SubSeq(d, 1, i) \o e \o SubSeq(d, i + 1, Len(d))

\* Every way of adding one unknown element inside the root of d.
WithUnknown(d) == {Insert(d, i, e) : i \in 1..(Len(d) - 1), e \in Unknown}

\* The document d without its unknown elements and what they contain.
RECURSIVE Strip(_, _, _)
Strip(d, i, depth) ==
    IF i > Len(d) THEN <<>>
    ELSE IF d[i].t = "open" /\ (depth > 0 \/ d[i].n = "x") THEN Strip(d, i + 1, depth + 1)
    ELSE IF d[i].t = "close" /\ depth > 0 THEN Strip(d, i + 1, depth - 1)
    ELSE IF depth > 0 THEN Strip(d, i + 1, depth)
    ELSE <<d[i]>> \o Strip(d, i + 1, depth)

\* Documents for the decoders alone: feeds with dates, and feeds with an
\* unknown element added.
DecodeDocs ==
    {DatedFeed(lb, ps) : lb \in DateTexts, ps \in DateSeqs}
    \cup UNION {WithUnknown(RSSFeed(ts)) : ts \in TitleSeqs}
    \cup UNION {WithUnknown(AtomFeed(ts)) : ts \in TitleSeqs}
    \cup WithUnknown(DatedFeed("not a date", <<"not a date">>))

\* The structural walk of xml.Decoder.Decode: skip to the first start element,
\* then read up to its matching end element. pos is the last token consumed.
RECURSIVE Walk(_, _, _)
Walk(d, i, stack) ==
    IF i > Len(d) THEN [ok |-> FALSE, pos |-> Len(d)]
    ELSE IF d[i].t = "open" THEN Walk(d, i + 1, <<d[i].n>> \o stack)
    ELSE IF d[i].t = "text" THEN Walk(d, i + 1, stack)
    ELSE IF stack = <<>> \/ Head(stack) # d[i].n THEN [ok |-> FALSE, pos |-> i]
    ELSE IF Len(stack) = 1 THEN [ok |-> TRUE, pos |-> i]
    ELSE Walk(d, i + 1, Tail(stack))

----------------------------------------------------------------------------
(* Inputs *)

URLs == {"", ":bad", "not-a-url", "http://feed"}

\* url.Parse inside http.NewRequestWithContext accepts the string
URLParses(u) == u # ":bad"

\* the transport can only send http and https requests
URLHasScheme(u) == u = "http://feed"

StatusCodes == {199, 200, 299, 300, 404}

StatusText(s) == CASE s = 199 -> "199 status code 199"
                   [] s = 200 -> "200 OK"
                   [] s = 299 -> "299 status code 299"
                   [] s = 300 -> "300 Multiple Choices"
                   [] s = 404 -> "404 Not Found"
                   [] OTHER -> ""

Readers == {"ParseRegular", "ParseAtom", "Regular", "Atom"}

Plans == {p \in [fetch : BOOLEAN, deferClose : BOOLEAN, reader : Readers \cup {"none"}] :
            p.fetch \/ p.reader # "none"}

NoRequest == [built |-> FALSE, ua |-> "", ctx |-> "none"]

NoResult == [status |-> 0, err |-> NilErr, cause |-> "none"]

----------------------------------------------------------------------------
(* ReadWithClient *)

\* UserAgent sending the generic value whatever the flag.
UserAgentGeneric(r) == "go-rss/1.0.0"

UserAgent(r) == IF r THEN "go-rss:v1.0.0 (by /u/go-rss-user)" ELSE "go-rss/1.0.0"

\* ReadWithClientPrepare without the empty-URL check.
ReadWithClientPrepareNoCheck(u, r) ==
    IF ~URLParses(u)
    THEN [err |-> Errorf("failed to create request", NewError("parse url")),
          req |-> NoRequest]
    ELSE [err |-> NilErr, req |-> [built |-> TRUE, ua |-> UserAgent(r), ctx |-> "ctx"]]

\* ReadWithClientPrepare building the request with http.NewRequest: the
\* request carries the background context, not the caller's.
ReadWithClientPrepareNoCtx(u, r) ==
    IF u = "" THEN [err |-> NewError("URL cannot be empty"), req |-> NoRequest]
    ELSE IF ~URLParses(u)
    THEN [err |-> Errorf("failed to create request", NewError("parse url")),
          req |-> NoRequest]
    ELSE [err |-> NilErr,
          req |-> [built |-> TRUE, ua |-> UserAgent(r), ctx |-> "background"]]

\* ReadWithClientPrepare that also rejects a URL without scheme.
ReadWithClientPrepareValidates(u, r) ==
    IF u = "" THEN [err |-> NewError("URL cannot be empty"), req |-> NoRequest]
    ELSE IF ~URLParses(u) \/ ~URLHasScheme(u)
    THEN [err |-> Errorf("failed to create request", NewError("parse url")),
          req |-> NoRequest]
    ELSE [err |-> NilErr, req |-> [built |-> TRUE, ua |-> UserAgent(r), ctx |-> "ctx"]]

\* ReadWithClientPrepare looking at the context before it looks at the URL.
ReadWithClientPrepareCtxFirst(u, r) ==
    IF CtxDone(ctx) THEN [err |-> CtxErr(ctx), req |-> NoRequest]
    ELSE IF u = "" THEN [err |-> NewError("URL cannot be empty"), req |-> NoRequest]
    ELSE IF ~URLParses(u)
    THEN [err |-> Errorf("failed to create request", NewError("parse url")),
          req |-> NoRequest]
    ELSE [err |-> NilErr, req |-> [built |-> TRUE, ua |-> UserAgent(r), ctx |-> "ctx"]]

\* The empty-URL check, http.NewRequestWithContext and the user-agent header.
ReadWithClientPrepare(u, r) ==
    IF u = "" THEN [err |-> NewError("URL cannot be empty"), req |-> NoRequest]
    ELSE IF ~URLParses(u)
    THEN [err |-> Errorf("failed to create request", NewError("parse url")),
          req |-> NoRequest]
    ELSE [err |-> NilErr, req |-> [built |-> TRUE, ua |-> UserAgent(r), ctx |-> "ctx"]]

\* ReadWithClientReturn that forgets response.Body.Close() on a bad status.
ReadWithClientReturnNoClose(d) ==
    IF d.err # NilErr
    THEN [resp |-> FALSE, err |-> Errorf("failed to fetch URL", d.err), close |-> FALSE]
    ELSE IF d.status < 200 \/ d.status >= 300
    THEN [resp |-> FALSE,
          err |-> [msg |-> "HTTP %d: %s", code |-> d.status,
                   status |-> StatusText(d.status), cause |-> <<>>],
          close |-> FALSE]
    ELSE [resp |-> TRUE, err |-> NilErr, close |-> FALSE]

\* ReadWithClientReturn that returns the client's error as it is.
ReadWithClientReturnUnwrapped(d) ==
    IF d.err # NilErr
    THEN [resp |-> FALSE, err |-> d.err, close |-> FALSE]
    ELSE IF d.status < 200 \/ d.status >= 300
    THEN [resp |-> FALSE,
          err |-> [msg |-> "HTTP %d: %s", code |-> d.status,
                   status |-> StatusText(d.status), cause |-> <<>>],
          close |-> TRUE]
    ELSE [resp |-> TRUE, err |-> NilErr, close |-> FALSE]

\* ReadWithClientReturn that reports a fetch failure without its cause.
ReadWithClientReturnNoCause(d) ==
    IF d.err # NilErr
    THEN [resp |-> FALSE, err |-> NewError("failed to fetch URL"), close |-> FALSE]
    ELSE IF d.status < 200 \/ d.status >= 300
    THEN [resp |-> FALSE,
          err |-> [msg |-> "HTTP %d: %s", code |-> d.status,
                   status |-> StatusText(d.status), cause |-> <<>>],
          close |-> TRUE]
    ELSE [resp |-> TRUE, err |-> NilErr, close |-> FALSE]

\* ReadWithClientReturn with the upper status bound off by one (300 accepted).
ReadWithClientReturnOffByOne(d) ==
    IF d.err # NilErr
    THEN [resp |-> FALSE, err |-> Errorf("failed to fetch URL", d.err), close |-> FALSE]
    ELSE IF d.status < 200 \/ d.status > 300
    THEN [resp |-> FALSE,
          err |-> [msg |-> "HTTP %d: %s", code |-> d.status,
                   status |-> StatusText(d.status), cause |-> <<>>],
          close |-> TRUE]
    ELSE [resp |-> TRUE, err |-> NilErr, close |-> FALSE]

\* ReadWithClientReturn handing out the response together with a status error.
ReadWithClientReturnKeepsResp(d) ==
    IF d.err # NilErr
    THEN [resp |-> FALSE, err |-> Errorf("failed to fetch URL", d.err), close |-> FALSE]
    ELSE IF d.status < 200 \/ d.status >= 300
    THEN [resp |-> TRUE,
          err |-> [msg |-> "HTTP %d: %s", code |-> d.status,
                   status |-> StatusText(d.status), cause |-> <<>>],
          close |-> TRUE]
    ELSE [resp |-> TRUE, err |-> NilErr, close |-> FALSE]

\* What ReadWithClient does with the result of client.Do.
ReadWithClientReturn(d) ==
    IF d.err # NilErr
    THEN [resp |-> FALSE, err |-> Errorf("failed to fetch URL", d.err), close |-> FALSE]
    ELSE IF d.status < 200 \/ d.status >= 300
    THEN [resp |-> FALSE,
          err |-> [msg |-> "HTTP %d: %s", code |-> d.status,
                   status |-> StatusText(d.status), cause |-> <<>>],
          close |-> TRUE]
    ELSE [resp |-> TRUE, err |-> NilErr, close |-> FALSE]

\* The context the transport watches is the one attached to the request.
ReqCtxDone == req.ctx = "ctx" /\ CtxDone(ctx)

\* client.Do wraps every failure in a *url.Error
URLError(e) == Errorf("Get", e)

Finish(d) ==
    LET r == ReadWithClientReturn(d) IN
    /\ doRet' = d
    /\ fetchRet' = [resp |-> r.resp, err |-> r.err]
    /\ body' = IF r.close THEN [body EXCEPT !.closedBy = Append(@, "ReadWithClient")]
               ELSE body
    /\ pc' = "fetched"

\* Entry of ReadWithClient up to the point where client.Do blocks. A URL
\* without scheme is rejected by the transport at once, with no I/O.
ReadWithClient ==
    /\ pc = "idle"
    /\ LET p == ReadWithClientPrepare(url, reddit) IN
       /\ req' = p.req
       /\ IF p.err # NilErr
          THEN /\ fetchRet' = [resp |-> FALSE, err |-> p.err]
               /\ pc' = "fetched"
               /\ UNCHANGED <<doCalls, doRet, body>>
          ELSE /\ doCalls' = doCalls + 1
               /\ IF URLHasScheme(url)
                  THEN /\ pc' = "inflight"
                       /\ UNCHANGED <<doRet, fetchRet, body>>
                  ELSE Finish([status |-> 0,
                               err |-> URLError(NewError("unsupported protocol scheme")),
                               cause |-> "scheme"])
    /\ UNCHANGED dvars
    /\ UNCHANGED mvars
    /\ UNCHANGED <<ctx, ctxKind, plan, url, reddit, doc, deferred, seen, firedAt, parseRet>>

\* The server answers while the request's context is live.
RoundTrip_Respond ==
    /\ pc = "inflight"
    /\ ~ReqCtxDone
    /\ \E s \in StatusCodes : Finish([status |-> s, err |-> NilErr, cause |-> "none"])
    /\ UNCHANGED dvars
    /\ UNCHANGED mvars
    /\ UNCHANGED <<ctx, ctxKind, plan, url, reddit, doc, req, doCalls, deferred,
                   seen, firedAt, parseRet>>

\* The transport aborts the request once the request's context is done.
RoundTrip_Abort ==
    /\ pc = "inflight"
    /\ ReqCtxDone
    /\ Finish([status |-> 0, err |-> URLError(CtxErr(ctx)), cause |-> ctx])
    /\ UNCHANGED dvars
    /\ UNCHANGED mvars
    /\ UNCHANGED <<ctx, ctxKind, plan, url, reddit, doc, req, doCalls, deferred,
                   seen, firedAt, parseRet>>

\* The connection fails.
RoundTrip_Fail ==
    /\ pc = "inflight"
    /\ Finish([status |-> 0, err |-> URLError(NewError("connection refused")),
               cause |-> "network"])
    /\ UNCHANGED dvars
    /\ UNCHANGED mvars
    /\ UNCHANGED <<ctx, ctxKind, plan, url, reddit, doc, req, doCalls, deferred,
                   seen, firedAt, parseRet>>

----------------------------------------------------------------------------
(* The caller between the fetch and the reader *)

\* `if err != nil { log.Fatal(err) }; defer resp.Body.Close()` of the documented
\* usage; a caller that only fetches keeps the response until it returns.
Caller_AfterRead ==
    /\ pc = "fetched"
    /\ IF fetchRet.err # NilErr
       THEN pc' = "done" /\ UNCHANGED deferred
       ELSE /\ deferred' = plan.deferClose
            /\ pc' = IF plan.reader = "none" THEN "exit" ELSE "call"
    /\ UNCHANGED dvars
    /\ UNCHANGED mvars
    /\ UNCHANGED <<ctx, ctxKind, plan, url, reddit, doc, req, doCalls, doRet,
                   fetchRet, body, seen, firedAt, parseRet>>

\* The caller's function returns: its deferred Close runs.
Caller_Return ==
    /\ pc \in {"parsed", "exit"}
    /\ body' = IF deferred THEN [body EXCEPT !.closedBy = Append(@, "caller")] ELSE body
    /\ pc' = "done"
    /\ UNCHANGED dvars
    /\ UNCHANGED mvars
    /\ UNCHANGED <<ctx, ctxKind, plan, url, reddit, doc, req, doCalls, doRet,
                   fetchRet, deferred, seen, firedAt, parseRet>>

----------------------------------------------------------------------------
(* Readers *)

NoValue == [kind |-> "nil", n |-> 0, items |-> <<>>, built |-> <<>>]

\* ParseRegular without its entry check.
ParseRegularCheckMissing(c) == NilErr

\* ParseAtom without its entry check.
ParseAtomCheckMissing(c) == NilErr

\* The select on ctx.Done() at the entry of ParseRegular: the error to return
\* at once, or NilErr to go on.
ParseRegularCheck(c) == IF CtxDone(c) THEN CtxErr(c) ELSE NilErr

\* The same check at the entry of ParseAtom.
ParseAtomCheck(c) == IF CtxDone(c) THEN CtxErr(c) ELSE NilErr

\* The binding of children taking an element with the right name at any depth.
RECURSIVE ChildrenAnyDepth(_, _, _, _, _)
ChildrenAnyDepth(d, i, to, depth, name) ==
    IF i >= to THEN <<>>
    ELSE IF d[i].t = "open"
         THEN (IF d[i].n = name THEN <<i>> ELSE <<>>)
              \o ChildrenAnyDepth(d, i + 1, to, depth + 1, name)
    ELSE ChildrenAnyDepth(d, i + 1, to, depth, name)

\* Indices of the start elements named `name` that are children (depth 1) of
\* the element whose content runs from token i to token `to`, in order.
RECURSIVE Children(_, _, _, _, _)
Children(d, i, to, depth, name) ==
    IF i >= to THEN <<>>
    ELSE IF d[i].t = "open"
         THEN (IF depth = 1 /\ d[i].n = name THEN <<i>> ELSE <<>>)
              \o Children(d, i + 1, to, depth + 1, name)
    ELSE IF d[i].t = "close" THEN Children(d, i + 1, to, depth - 1, name)
    ELSE Children(d, i + 1, to, depth, name)

\* The character data directly inside that element, chunk by chunk.
RECURSIVE DirectText(_, _, _, _)
DirectText(d, i, to, depth) ==
    IF i >= to THEN <<>>
    ELSE IF d[i].t = "open" THEN DirectText(d, i + 1, to, depth + 1)
    ELSE IF d[i].t = "close" THEN DirectText(d, i + 1, to, depth - 1)
    ELSE (IF depth = 1 THEN <<d[i].n>> ELSE <<>>) \o DirectText(d, i + 1, to, depth)

\* Index of the end element matching the start element at token i.
MatchEnd(d, i) == Walk(d, i, <<>>).pos

\* Index of the first start element of the document, or 0.
RECURSIVE FirstOpen(_, _)
FirstOpen(d, i) == IF i > Len(d) THEN 0
                   ELSE IF d[i].t = "open" THEN i ELSE FirstOpen(d, i + 1)

\* A string field bound to `xml:"title"`: the text of the last title child.
TitleAt(d, i) ==
    LET ts == Children(d, i + 1, MatchEnd(d, i), 1, "title")
    IN IF ts = <<>> THEN <<>>
       ELSE DirectText(d, ts[Len(ts)] + 1, MatchEnd(d, ts[Len(ts)]), 1)

\* A Date or string field bound to the tag `tag` (PubDate Date `xml:"pubDate"`,
\* LastBuildDate Date `xml:"lastBuildDate"`, Updated string `xml:"updated"`):
\* the character data of the last child with that name, copied as it is.
DateAt(d, i, tag) ==
    LET ts == Children(d, i + 1, MatchEnd(d, i), 1, tag)
    IN IF ts = <<>> THEN <<>>
       ELSE DirectText(d, ts[Len(ts)] + 1, MatchEnd(d, ts[Len(ts)]), 1)

\* The tag of the date of a record: pubDate in an item, updated in an entry.
DateTag(name) == IF name = "item" THEN "pubDate" ELSE "updated"

\* A slice field ([]Item `xml:"item"`, []Entry `xml:"entry"`): one record is
\* appended for each child element with that name, as the decoder meets it.
RecordsAt(d, i, name) ==
    LET idx == Children(d, i + 1, MatchEnd(d, i), 1, name)
    IN [k \in 1..Len(idx) |-> [title |-> TitleAt(d, idx[k]),
                               date |-> DateAt(d, idx[k], DateTag(name))]]

\* The Channel field is filled from every channel child of the root in turn;
\* the Item slice keeps growing across them.
RECURSIVE ChannelItems(_, _)
ChannelItems(d, chs) ==
    IF Len(chs) = 0 THEN <<>>
    ELSE RecordsAt(d, chs[1], "item")
         \o ChannelItems(d, [k \in 1..(Len(chs) - 1) |-> chs[k + 1]])

\* Channel.LastBuildDate: every channel child of the root overwrites it when
\* it has a lastBuildDate child.
RECURSIVE ChannelBuilt(_, _)
ChannelBuilt(d, chs) ==
    IF Len(chs) = 0 THEN <<>>
    ELSE LET last == chs[Len(chs)]
             rest == [k \in 1..(Len(chs) - 1) |-> chs[k]]
         IN IF Children(d, last + 1, MatchEnd(d, last), 1, "lastBuildDate") # <<>>
            THEN DateAt(d, last, "lastBuildDate")
            ELSE ChannelBuilt(d, rest)

\* The decode dropping a record equal to the one before it.
RECURSIVE Dedup(_)
Dedup(rs) ==
    IF Len(rs) <= 1 THEN rs
    ELSE LET rest == Dedup([k \in 1..(Len(rs) - 1) |-> rs[k + 1]])
         IN IF rs[1] = rs[2] THEN rest ELSE <<rs[1]>> \o rest

\* The decode prepending each record instead of appending it.
RECURSIVE Reverse(_)
Reverse(rs) == IF Len(rs) = 0 THEN <<>>
               ELSE Reverse([k \in 1..(Len(rs) - 1) |-> rs[k + 1]]) \o <<rs[1]>>

DecodeChannelDedup(d) ==
    LET w == Walk(d, 1, <<>>)
        root == FirstOpen(d, 1)
        items == Dedup(ChannelItems(d, Children(d, root + 1, w.pos, 1, "channel")))
    IN IF ~w.ok THEN [val |-> NoValue, err |-> NewError("XML syntax error"), pos |-> w.pos]
       ELSE [val |-> [kind |-> "Channel", n |-> Len(items), items |-> items,
                      built |-> ChannelBuilt(d, Children(d, root + 1, w.pos, 1, "channel"))],
             err |-> NilErr, pos |-> w.pos]

DecodeFeedReversed(d) ==
    LET w == Walk(d, 1, <<>>)
        root == FirstOpen(d, 1)
        entries == Reverse(RecordsAt(d, root, "entry"))
    IN IF ~w.ok THEN [val |-> NoValue, err |-> NewError("XML syntax error"), pos |-> w.pos]
       ELSE [val |-> [kind |-> "Feed", n |-> Len(entries), items |-> entries,
                      built |-> <<>>],
             err |-> NilErr, pos |-> w.pos]

\* The decode refusing a document whose root is not an rss element.
DecodeChannelChecksRoot(d) ==
    LET w == Walk(d, 1, <<>>)
        root == FirstOpen(d, 1)
        chs == Children(d, root + 1, w.pos, 1, "channel")
        items == ChannelItems(d, chs)
    IN IF ~w.ok THEN [val |-> NoValue, err |-> NewError("XML syntax error"), pos |-> w.pos]
       ELSE IF d[root].n # "rss"
       THEN [val |-> NoValue, err |-> NewError("expected element type <rss>"), pos |-> root]
       ELSE [val |-> [kind |-> "Channel", n |-> Len(items), items |-> items,
                      built |-> ChannelBuilt(d, chs)],
             err |-> NilErr, pos |-> w.pos]

\* The decode parsing every date it stores and failing on one it cannot parse.
DecodeChannelParsesDates(d) ==
    LET w == Walk(d, 1, <<>>)
        root == FirstOpen(d, 1)
        chs == Children(d, root + 1, w.pos, 1, "channel")
        items == ChannelItems(d, chs)
        bad(x) == x = <<"not a date">>
    IN IF ~w.ok THEN [val |-> NoValue, err |-> NewError("XML syntax error"), pos |-> w.pos]
       ELSE IF bad(ChannelBuilt(d, chs)) \/ \E k \in 1..Len(items) : bad(items[k].date)
       THEN [val |-> NoValue, err |-> NewError("parsing time"), pos |-> w.pos]
       ELSE [val |-> [kind |-> "Channel", n |-> Len(items), items |-> items,
                      built |-> ChannelBuilt(d, chs)],
             err |-> NilErr, pos |-> w.pos]

\* xmlDecoder.Decode(&rss) with rss = struct{ Channel `xml:"channel"` }: the
\* items of the channel children of the root, whatever the root is named.
DecodeChannel(d) ==
    LET w == Walk(d, 1, <<>>)
        root == FirstOpen(d, 1)
        items == ChannelItems(d, Children(d, root + 1, w.pos, 1, "channel"))
    IN IF ~w.ok THEN [val |-> NoValue, err |-> NewError("XML syntax error"), pos |-> w.pos]
       ELSE [val |-> [kind |-> "Channel", n |-> Len(items), items |-> items,
                      built |-> ChannelBuilt(d, Children(d, root + 1, w.pos, 1, "channel"))],
             err |-> NilErr, pos |-> w.pos]

\* The Atom decode returning the Feed it was filling together with the error.
DecodeFeedPartial(d) ==
    LET w == Walk(d, 1, <<>>)
        root == FirstOpen(d, 1)
        entries == RecordsAt(d, root, "entry")
    IN IF ~w.ok
       THEN [val |-> [kind |-> "Feed", n |-> 0, items |-> <<>>, built |-> <<>>],
             err |-> NewError("XML syntax error"), pos |-> w.pos]
       ELSE [val |-> [kind |-> "Feed", n |-> Len(entries), items |-> entries,
                      built |-> <<>>],
             err |-> NilErr, pos |-> w.pos]

\* xmlDecoder.Decode(&feed) with feed = Feed{ Entry `xml:"entry"` }.
DecodeFeed(d) ==
    LET w == Walk(d, 1, <<>>)
        root == FirstOpen(d, 1)
        entries == RecordsAt(d, root, "entry")
    IN IF ~w.ok THEN [val |-> NoValue, err |-> NewError("XML syntax error"), pos |-> w.pos]
       ELSE [val |-> [kind |-> "Feed", n |-> Len(entries), items |-> entries,
                      built |-> <<>>],
             err |-> NilErr, pos |-> w.pos]

\* Regular without its deferred Close.
RegularCloseMissing(b) == b

\* `defer resp.Body.Close()` of Regular
RegularClose(b) == [b EXCEPT !.closedBy = Append(@, "Regular")]

\* `defer resp.Body.Close()` of Atom
AtomClose(b) == [b EXCEPT !.closedBy = Append(@, "Atom")]

\* A body that came from the transport is bound to the request's context: once
\* that context is done a Read may fail with the context's error, or may still
\* be served from data that had already arrived.
ReadFails == IF plan.fetch /\ ReqCtxDone THEN BOOLEAN ELSE {FALSE}

Entry(fn, e, b) ==
    /\ pc = "call"
    /\ plan.reader = fn
    /\ seen' = ctx
    /\ IF e # NilErr
       THEN /\ parseRet' = [val |-> NoValue, err |-> e]
            /\ body' = b
            /\ pc' = "parsed"
       ELSE /\ pc' = "decoding"
            /\ UNCHANGED <<parseRet, body>>
    /\ UNCHANGED dvars
    /\ UNCHANGED mvars
    /\ UNCHANGED <<ctx, ctxKind, plan, url, reddit, doc, req, doCalls, doRet,
                   fetchRet, deferred, firedAt>>

Decode(fn, r, closed) ==
    /\ pc = "decoding"
    /\ plan.reader = fn
    /\ \E f \in ReadFails :
         IF f
         THEN /\ parseRet' = [val |-> NoValue, err |-> CtxErr(ctx)]
              /\ body' = closed
         ELSE /\ parseRet' = [val |-> r.val, err |-> r.err]
              /\ body' = [closed EXCEPT !.pos = r.pos]
    /\ pc' = "parsed"
    /\ UNCHANGED dvars
    /\ UNCHANGED mvars
    /\ UNCHANGED <<ctx, ctxKind, plan, url, reddit, doc, req, doCalls, doRet,
                   fetchRet, deferred, seen, firedAt>>

\* ParseRegular polling the context again once the decode has returned.
ParseRegular_DecodeRechecks ==
    Decode("ParseRegular",
           IF CtxDone(ctx)
           THEN [val |-> NoValue, err |-> CtxErr(ctx), pos |-> DecodeChannel(doc).pos]
           ELSE DecodeChannel(doc),
           body)

\* ParseRegular closing the reader when the decode has returned.
ParseRegular_DecodeCloses ==
    Decode("ParseRegular", DecodeChannel(doc),
           [body EXCEPT !.closedBy = Append(@, "ParseRegular")])

\* ParseRegular: the entry check, then the decode.
ParseRegular_Entry == Entry("ParseRegular", ParseRegularCheck(ctx), body)

ParseRegular_Decode == Decode("ParseRegular", DecodeChannel(doc), body)

\* Regular: ParseRegular on resp.Body, and the deferred Close on the way out.
Regular_Entry == Entry("Regular", ParseRegularCheck(ctx), RegularClose(body))

Regular_Decode == Decode("Regular", DecodeChannel(doc), RegularClose(body))

ParseAtom_Entry == Entry("ParseAtom", ParseAtomCheck(ctx), body)

ParseAtom_Decode == Decode("ParseAtom", DecodeFeed(doc), body)

Atom_Entry == Entry("Atom", ParseAtomCheck(ctx), AtomClose(body))

Atom_Decode == Decode("Atom", DecodeFeed(doc), AtomClose(body))

----------------------------------------------------------------------------
(* The context *)

\* cancel()
Cancel ==
    /\ ctxKind \in {"cancel", "timeout"}
    /\ ctx = "active"
    /\ pc # "done"
    /\ ctx' = "canceled"
    /\ firedAt' = pc
    /\ UNCHANGED dvars
    /\ UNCHANGED mvars
    /\ UNCHANGED <<ctxKind, plan, url, reddit, doc, pc, req, doCalls, doRet,
                   fetchRet, body, deferred, seen, parseRet>>

\* the deadline of context.WithTimeout passes
DeadlineElapses ==
    /\ ctxKind = "timeout"
    /\ ctx = "active"
    /\ pc # "done"
    /\ ctx' = "deadline"
    /\ firedAt' = pc
    /\ UNCHANGED dvars
    /\ UNCHANGED mvars
    /\ UNCHANGED <<ctxKind, plan, url, reddit, doc, pc, req, doCalls, doRet,
                   fetchRet, body, deferred, seen, parseRet>>

----------------------------------------------------------------------------
(* Dates. A layout is the sequence of its elements; a date string is the    *)
(* sequence of the lexemes it is written with, each the rendering of one    *)
(* value by one layout element. A time is a wall clock reading (year, day   *)
(* of the year, minute of the day, second) in a zone (offset in minutes     *)
(* east of UTC, abbreviation). The machine's local zone is UTC.             *)

wordpressDateFormat == <<"Mon,", "02 Jan 2006", "15:04", ":05", "-0700">>

RFC822 == <<"02 Jan 06", "15:04", "MST">>

RFC3339 == <<"2006-01-02", "T", "15:04", ":05", "Z07:00">>

RFC1123 == <<"Mon,", "02 Jan 2006", "15:04", ":05", "MST">>

DateOnly == <<"2006-01-02">>

DateTime == <<"2006-01-02", " ", "15:04", ":05">>

Layouts == {wordpressDateFormat, RFC822, RFC3339, DateOnly, DateTime}

Lex(e, n, str) == [el |-> e, n |-> n, s |-> str]

\* time.Time{}
ZeroTime == [y |-> 1, d |-> 1, hm |-> 0, sec |-> 0, off |-> 0, name |-> "UTC"]

\* the fields time.Parse starts from
ParseDefault == [y |-> 0, d |-> 1, hm |-> 0, sec |-> 0, off |-> 0, name |-> "UTC"]

NoDateErr == [msg |-> "", layout |-> <<>>, elem |-> ""]

\* *time.ParseError: the layout that was tried and the element that failed
ParseError(l, e) == [msg |-> "parsing time", layout |-> l, elem |-> e]

\* err.Error() of a parse error, as a string
DateErrorText(err) ==
    <<Lex(err.msg, 0, err.elem)>> \o [i \in 1..Len(err.layout) |-> Lex(err.layout[i], 0, "")]

Abs(n) == IF n < 0 THEN 0 - n ELSE n

\* an offset in minutes written as the digits hhmm
HHMM(off) == (Abs(off) \div 60) * 100 + (Abs(off) % 60)

Weekday(t) == (t.y + t.d) % 7

\* the instant a time denotes, in seconds since the start of the year 2000
Instant(t) == (((t.y - 2000) * 366 + t.d) * 1440 + t.hm - t.off) * 60 + t.sec

\* the name of the zone time.Parse attaches to a numeric offset: the local
\* zone when the offset is the local one, else a zone without name
ZoneNameOf(off) == IF off = 0 THEN "UTC" ELSE ""

\* t.Format: one layout element
FormatElem(t, e) ==
    CASE e = "Mon," -> Lex(e, Weekday(t), "")
      [] e \in {"02 Jan 2006", "2006-01-02"} -> Lex(e, t.y * 1000 + t.d, "")
      [] e = "02 Jan 06" -> Lex(e, (t.y % 100) * 1000 + t.d, "")
      [] e = "15:04" -> Lex(e, t.hm, "")
      [] e = ":05" -> Lex(e, t.sec, "")
      [] e \in {"-0700", "Z07:00"} -> Lex(e, t.off, "")
      [] e = "MST" -> IF t.name # "" THEN Lex(e, 0, t.name) ELSE Lex("-0700", t.off, "")
      [] OTHER -> Lex(e, 0, "")

\* t.Format(layout)
TimeFormat(t, l) == [i \in 1..Len(l) |-> FormatElem(t, l[i])]

\* time.Parse: does the layout element accept the lexeme? A zone abbreviation
\* element also takes a signed number, but only up to 23.
Accepts(e, x) ==
    IF e = "MST" THEN x.el = "MST" \/ (x.el = "-0700" /\ HHMM(x.n) <= 23)
    ELSE x.el = e

\* time.Parse: the fields one accepted lexeme sets. A zone abbreviation the
\* local zone does not know gets offset 0; a signed number taken as the
\* abbreviation (only +0000 among the sample dates) is kept as the name.
Apply(e, x, t) ==
    CASE e \in {"02 Jan 2006", "2006-01-02"} ->
            [t EXCEPT !.y = x.n \div 1000, !.d = x.n % 1000]
      [] e = "02 Jan 06" ->
            [t EXCEPT !.y = IF x.n \div 1000 >= 69 THEN 1900 + (x.n \div 1000)
                            ELSE 2000 + (x.n \div 1000),
                      !.d = x.n % 1000]
      [] e = "15:04" -> [t EXCEPT !.hm = x.n]
      [] e = ":05" -> [t EXCEPT !.sec = x.n]
      [] e \in {"-0700", "Z07:00"} -> [t EXCEPT !.off = x.n, !.name = ZoneNameOf(x.n)]
      [] e = "MST" -> [t EXCEPT !.off = 0,
                                !.name = IF x.el = "MST" THEN x.s ELSE "+0000"]
      [] OTHER -> t

\* time.Parse(layout, value)
RECURSIVE TimeParse(_, _, _, _)
TimeParse(l, str, i, t) ==
    IF i > Len(l)
    THEN IF Len(str) > Len(l) THEN [t |-> ZeroTime, err |-> ParseError(l, "extra text")]
         ELSE [t |-> t, err |-> NoDateErr]
    ELSE IF i > Len(str) \/ ~Accepts(l[i], str[i])
         THEN [t |-> ZeroTime, err |-> ParseError(l, l[i])]
    ELSE TimeParse(l, str, i + 1, Apply(l[i], str[i], t))

\* Date.ParseWithFormat
ParseWithFormat(d, format) == TimeParse(format, d, 1, ParseDefault)

\* Date.Parse trying RFC 822 before the WordPress layout.
ParseWrongOrder(d) ==
    LET r1 == ParseWithFormat(d, RFC822)
        r2 == ParseWithFormat(d, wordpressDateFormat)
        r3 == ParseWithFormat(d, RFC3339)
    IN IF r1.err = NoDateErr THEN [t |-> r1.t, err |-> r1.err, tried |-> <<RFC822>>]
       ELSE IF r2.err = NoDateErr
       THEN [t |-> r2.t, err |-> r2.err, tried |-> <<RFC822, wordpressDateFormat>>]
       ELSE [t |-> r3.t, err |-> r3.err,
             tried |-> <<RFC822, wordpressDateFormat, RFC3339>>]

\* Date.Parse keeping the error of the first layout when all three fail.
ParseFirstError(d) ==
    LET r1 == ParseWithFormat(d, wordpressDateFormat)
        r2 == ParseWithFormat(d, RFC822)
        r3 == ParseWithFormat(d, RFC3339)
    IN IF r1.err = NoDateErr
       THEN [t |-> r1.t, err |-> r1.err, tried |-> <<wordpressDateFormat>>]
       ELSE IF r2.err = NoDateErr
       THEN [t |-> r2.t, err |-> r2.err, tried |-> <<wordpressDateFormat, RFC822>>]
       ELSE [t |-> r3.t, err |-> IF r3.err = NoDateErr THEN r3.err ELSE r1.err,
             tried |-> <<wordpressDateFormat, RFC822, RFC3339>>]

\* Date.Parse: the three layouts in turn; `tried` lists the calls it made.
Parse(d) ==
    LET r1 == ParseWithFormat(d, wordpressDateFormat)
        r2 == ParseWithFormat(d, RFC822)
        r3 == ParseWithFormat(d, RFC3339)
    IN IF r1.err = NoDateErr
       THEN [t |-> r1.t, err |-> r1.err, tried |-> <<wordpressDateFormat>>]
       ELSE IF r2.err = NoDateErr
       THEN [t |-> r2.t, err |-> r2.err, tried |-> <<wordpressDateFormat, RFC822>>]
       ELSE [t |-> r3.t, err |-> r3.err,
             tried |-> <<wordpressDateFormat, RFC822, RFC3339>>]

\* Date.Format returning a formatted zero time together with the error.
FormatIgnoresError(d, format) ==
    LET p == Parse(d)
    IN IF p.err # NoDateErr THEN [s |-> TimeFormat(ZeroTime, format), err |-> p.err]
       ELSE [s |-> TimeFormat(p.t, format), err |-> NoDateErr]

\* Date.Format writing RFC 3339 whatever layout it is given.
FormatIgnoresLayout(d, format) ==
    LET p == Parse(d)
    IN IF p.err # NoDateErr THEN [s |-> <<>>, err |-> p.err]
       ELSE [s |-> TimeFormat(p.t, RFC3339), err |-> NoDateErr]

\* Date.Format
Format(d, format) ==
    LET p == Parse(d)
    IN IF p.err # NoDateErr THEN [s |-> <<>>, err |-> p.err]
       ELSE [s |-> TimeFormat(p.t, format), err |-> NoDateErr]

\* Date.MustFormat returning Format's empty string when parsing fails.
MustFormatEmptyOnError(d, format) == Format(d, format).s

\* Date.MustFormat
MustFormat(d, format) ==
    LET f == Format(d, format)
    IN IF f.err # NoDateErr THEN DateErrorText(f.err) ELSE f.s

\* The times the sample date strings are written from.
SampleTimes ==
    {[y |-> y, d |-> 1, hm |-> 720, sec |-> sec, off |-> z[1], name |-> z[2]] :
        y \in {1950, 2024}, sec \in {0, 30},
        z \in {<<0, "UTC">>, <<330, "">>, <<0, "PST">>}}

\* Date strings found in feeds: the three supported layouts, RFC 1123 (which
\* none of the three accepts), text that is no date, and the empty string.
Dates ==
    {TimeFormat(t, l) : t \in SampleTimes,
                        l \in {wordpressDateFormat, RFC822, RFC3339, RFC1123}}
    \cup {<<Lex("text", 0, "not a date")>>, <<>>}

NoParse == [t |-> ZeroTime, err |-> NoDateErr, tried |-> <<>>]

NoFormat == [s |-> <<>>, err |-> NoDateErr]

NoBack == [t |-> ZeroTime, err |-> NoDateErr]

\* t, err := date.Parse()
Date_Parse ==
    /\ "Parse" \notin dDone
    /\ dParse' = Parse(date)
    /\ dDone' = dDone \cup {"Parse"}
    /\ UNCHANGED <<date, layout, dFormat, dMust, dBack>>
    /\ UNCHANGED <<ctx, ctxKind, plan, url, reddit, doc, pc, req, doCalls, doRet,
                   fetchRet, body, deferred, seen, firedAt, parseRet>>
    /\ UNCHANGED mvars

\* formatted, err := date.Format(layout)
Date_Format ==
    /\ "Format" \notin dDone
    /\ dFormat' = Format(date, layout)
    /\ dDone' = dDone \cup {"Format"}
    /\ UNCHANGED <<date, layout, dParse, dMust, dBack>>
    /\ UNCHANGED <<ctx, ctxKind, plan, url, reddit, doc, pc, req, doCalls, doRet,
                   fetchRet, body, deferred, seen, firedAt, parseRet>>
    /\ UNCHANGED mvars

\* formatted := date.MustFormat(layout)
Date_MustFormat ==
    /\ "MustFormat" \notin dDone
    /\ dMust' = MustFormat(date, layout)
    /\ dDone' = dDone \cup {"MustFormat"}
    /\ UNCHANGED <<date, layout, dParse, dFormat, dBack>>
    /\ UNCHANGED <<ctx, ctxKind, plan, url, reddit, doc, pc, req, doCalls, doRet,
                   fetchRet, body, deferred, seen, firedAt, parseRet>>
    /\ UNCHANGED mvars

\* Date(formatted).ParseWithFormat(layout), once Format has succeeded
Date_ParseBack ==
    /\ "Format" \in dDone
    /\ dFormat.err = NoDateErr
    /\ "ParseBack" \notin dDone
    /\ dBack' = ParseWithFormat(dFormat.s, layout)
    /\ dDone' = dDone \cup {"ParseBack"}
    /\ UNCHANGED <<date, layout, dParse, dFormat, dMust>>
    /\ UNCHANGED <<ctx, ctxKind, plan, url, reddit, doc, pc, req, doCalls, doRet,
                   fetchRet, body, deferred, seen, firedAt, parseRet>>
    /\ UNCHANGED mvars

----------------------------------------------------------------------------
(* Several calls: each call is a ReadWithClient or a ParseRegular with its  *)
(* own arguments; the calls run side by side, each with its own context and *)
(* client, or one after the other with one context for all of them.         *)

OpIds == 1..NumOps

NoOp == [fn |-> "none", ctx |-> 1, url |-> "", doc |-> <<>>, pc |-> "done",
         at |-> "none", ans |-> 0, resp |-> FALSE, err |-> NilErr, val |-> NoValue]

\* The arguments of one call.
OpInputs ==
    {[NoOp EXCEPT !.fn = "ReadWithClient", !.url = u, !.pc = "idle"] :
        u \in {"", "http://feed"}}
    \cup {[NoOp EXCEPT !.fn = "ParseRegular", !.doc = d, !.pc = "idle"] :
        d \in {RSSDoc(1), <<T("This is not valid XML")>>}}

\* Every call reading one package-level context instead of its argument.
CtxOfShared(i) == octx[1]

\* The ctx argument of call i.
CtxOf(i) == octx[ops[i].ctx]

\* In a sequence a call starts when the calls before it have returned.
CanStart(i) == mode = "sequence" => \A k \in 1..(i - 1) : ops[k].pc = "done"

\* ReadWithClient of call i up to the point where client.Do blocks.
Op_ReadWithClient(i) ==
    /\ ops[i].fn = "ReadWithClient"
    /\ ops[i].pc = "idle"
    /\ CanStart(i)
    /\ LET p == ReadWithClientPrepare(ops[i].url, FALSE)
           r == ReadWithClientReturn([status |-> 0,
                                      err |-> URLError(NewError("unsupported protocol scheme")),
                                      cause |-> "scheme"])
       IN ops' = [ops EXCEPT ![i] =
                    IF p.err # NilErr
                    THEN [@ EXCEPT !.at = octx[ops[i].ctx], !.err = p.err, !.pc = "done"]
                    ELSE IF ~URLHasScheme(@.url)
                    THEN [@ EXCEPT !.at = octx[ops[i].ctx], !.resp = r.resp, !.err = r.err,
                                   !.pc = "done"]
                    ELSE [@ EXCEPT !.at = octx[ops[i].ctx], !.pc = "inflight"]]
    /\ UNCHANGED <<mode, octx, pvars, dvars>>

\* The server of call i answers while the context of its request is live.
Op_Respond(i) ==
    /\ ops[i].pc = "inflight"
    /\ ~CtxDone(CtxOf(i))
    /\ \E s \in {200, 404} :
         LET r == ReadWithClientReturn([status |-> s, err |-> NilErr, cause |-> "none"])
         IN ops' = [ops EXCEPT ![i] = [@ EXCEPT !.ans = s, !.resp = r.resp,
                                                !.err = r.err, !.pc = "done"]]
    /\ UNCHANGED <<mode, octx, pvars, dvars>>

\* The transport of call i aborts the request: the context of the request is done.
Op_Abort(i) ==
    /\ ops[i].pc = "inflight"
    /\ CtxDone(CtxOf(i))
    /\ LET r == ReadWithClientReturn([status |-> 0, err |-> URLError(CtxErr(CtxOf(i))),
                                      cause |-> CtxOf(i)])
       IN ops' = [ops EXCEPT ![i] = [@ EXCEPT !.resp = r.resp, !.err = r.err,
                                              !.pc = "done"]]
    /\ UNCHANGED <<mode, octx, pvars, dvars>>

\* ParseRegular of call i: the entry check.
Op_ParseRegular_Entry(i) ==
    /\ ops[i].fn = "ParseRegular"
    /\ ops[i].pc = "idle"
    /\ CanStart(i)
    /\ LET e == ParseRegularCheck(CtxOf(i))
       IN ops' = [ops EXCEPT ![i] =
                    IF e # NilErr
                    THEN [@ EXCEPT !.at = octx[ops[i].ctx], !.err = e, !.pc = "done"]
                    ELSE [@ EXCEPT !.at = octx[ops[i].ctx], !.pc = "decoding"]]
    /\ UNCHANGED <<mode, octx, pvars, dvars>>

\* ParseRegular of call i: the decode of its reader.
Op_ParseRegular_Decode(i) ==
    /\ ops[i].pc = "decoding"
    /\ LET r == DecodeChannel(ops[i].doc)
       IN ops' = [ops EXCEPT ![i] = [@ EXCEPT !.val = r.val, !.err = r.err,
                                              !.pc = "done"]]
    /\ UNCHANGED <<mode, octx, pvars, dvars>>

\* a context some unfinished call was given can still fire
Pending(j) == octx[j] = "active" /\ \E i \in OpIds : ops[i].ctx = j /\ ops[i].pc # "done"

\* cancel() of context j
Op_Cancel(j) ==
    /\ Pending(j)
    /\ octx' = [octx EXCEPT ![j] = "canceled"]
    /\ UNCHANGED <<mode, ops, pvars, dvars>>

\* the deadline of context j passes
Op_DeadlineElapses(j) ==
    /\ Pending(j)
    /\ octx' = [octx EXCEPT ![j] = "deadline"]
    /\ UNCHANGED <<mode, ops, pvars, dvars>>

----------------------------------------------------------------------------
(* Specification *)

Init ==
    /\ ctx = "active"
    /\ ctxKind \in {"background", "cancel", "timeout"}
    /\ plan \in Plans
    /\ url \in (IF plan.fetch THEN URLs ELSE {"http://feed"})
    /\ reddit \in (IF plan.fetch THEN BOOLEAN ELSE {FALSE})
    /\ doc \in (IF plan.reader = "none" THEN {RSSDoc(0)} ELSE Docs)
    /\ pc = IF plan.fetch THEN "idle" ELSE "call"
    /\ req = NoRequest
    /\ doCalls = 0
    /\ doRet = NoResult
    /\ fetchRet = [resp |-> FALSE, err |-> NilErr]
    /\ body = [pos |-> 0, closedBy |-> <<>>]
    /\ deferred = (~plan.fetch /\ plan.deferClose)
    /\ seen = "none"
    /\ firedAt = "never"
    /\ parseRet = [val |-> NoValue, err |-> NilErr]
    /\ date = <<>>
    /\ layout = <<>>
    /\ dParse = NoParse
    /\ dFormat = NoFormat
    /\ dMust = <<>>
    /\ dBack = NoBack
    /\ dDone = {}
    /\ mode = "none"
    /\ octx = [j \in 1..NumOps |-> "active"]
    /\ ops = [i \in 1..NumOps |-> NoOp]

Next ==
    \/ ReadWithClient
    \/ RoundTrip_Respond
    \/ RoundTrip_Abort
    \/ RoundTrip_Fail
    \/ Caller_AfterRead
    \/ Caller_Return
    \/ ParseRegular_Entry
    \/ ParseRegular_Decode
    \/ Regular_Entry
    \/ Regular_Decode
    \/ ParseAtom_Entry
    \/ ParseAtom_Decode
    \/ Atom_Entry
    \/ Atom_Decode
    \/ Cancel
    \/ DeadlineElapses

Spec == Init /\ [][Next]_vars

\* The Go scheduler runs every goroutine that can run: the transport's abort,
\* the returns of the calls and the caller's steps are not postponed for ever.
\* The server's answer, a network failure and the cancellation are not owed.
Fairness ==
    /\ WF_vars(ReadWithClient)
    /\ WF_vars(RoundTrip_Abort)
    /\ WF_vars(Caller_AfterRead)
    /\ WF_vars(Caller_Return)

LiveSpec == Init /\ [][Next]_vars /\ Fairness

\* The Date operations on their own: a caller holding one date string of a
\* decoded feed applies Parse, Format, MustFormat and the re-parse of the
\* formatted string, in any order.
DateInit ==
    /\ ctx = "active"
    /\ ctxKind = "background"
    /\ plan = [fetch |-> FALSE, deferClose |-> FALSE, reader |-> "ParseRegular"]
    /\ url = "http://feed"
    /\ reddit = FALSE
    /\ doc = RSSDoc(1)
    /\ pc = "done"
    /\ req = NoRequest
    /\ doCalls = 0
    /\ doRet = NoResult
    /\ fetchRet = [resp |-> FALSE, err |-> NilErr]
    /\ body = [pos |-> MatchEnd(RSSDoc(1), 1), closedBy |-> <<>>]
    /\ deferred = FALSE
    /\ seen = "active"
    /\ firedAt = "never"
    /\ parseRet = [val |-> DecodeChannel(RSSDoc(1)).val, err |-> NilErr]
    /\ date \in Dates
    /\ layout \in Layouts
    /\ dParse = NoParse
    /\ dFormat = NoFormat
    /\ dMust = <<>>
    /\ dBack = NoBack
    /\ dDone = {}
    /\ mode = "none"
    /\ octx = [j \in 1..NumOps |-> "active"]
    /\ ops = [i \in 1..NumOps |-> NoOp]

DateNext ==
    \/ Date_Parse
    \/ Date_Format
    \/ Date_MustFormat
    \/ Date_ParseBack

DateSpec == DateInit /\ [][DateNext]_vars

\* The decoders on their own: a caller hands a document with dates or with
\* unknown elements to ParseRegular or ParseAtom under a live context.
DecodeInit ==
    /\ ctx = "active"
    /\ ctxKind = "background"
    /\ plan \in {p \in Plans : ~p.fetch /\ p.reader \in {"ParseRegular", "ParseAtom"}}
    /\ url = "http://feed"
    /\ reddit = FALSE
    /\ doc \in DecodeDocs
    /\ pc = "call"
    /\ req = NoRequest
    /\ doCalls = 0
    /\ doRet = NoResult
    /\ fetchRet = [resp |-> FALSE, err |-> NilErr]
    /\ body = [pos |-> 0, closedBy |-> <<>>]
    /\ deferred = plan.deferClose
    /\ seen = "none"
    /\ firedAt = "never"
    /\ parseRet = [val |-> NoValue, err |-> NilErr]
    /\ date = <<>>
    /\ layout = <<>>
    /\ dParse = NoParse
    /\ dFormat = NoFormat
    /\ dMust = <<>>
    /\ dBack = NoBack
    /\ dDone = {}
    /\ mode = "none"
    /\ octx = [j \in 1..NumOps |-> "active"]
    /\ ops = [i \in 1..NumOps |-> NoOp]

DecodeNext ==
    \/ ParseRegular_Entry
    \/ ParseRegular_Decode
    \/ ParseAtom_Entry
    \/ ParseAtom_Decode
    \/ Caller_Return

DecodeSpec == DecodeInit /\ [][DecodeNext]_vars

\* Several calls: side by side with a context each, or in a sequence that
\* shares the first context.
OpsInit ==
    /\ ctx = "active"
    /\ ctxKind = "background"
    /\ plan = [fetch |-> FALSE, deferClose |-> FALSE, reader |-> "ParseRegular"]
    /\ url = "http://feed"
    /\ reddit = FALSE
    /\ doc = RSSDoc(1)
    /\ pc = "done"
    /\ req = NoRequest
    /\ doCalls = 0
    /\ doRet = NoResult
    /\ fetchRet = [resp |-> FALSE, err |-> NilErr]
    /\ body = [pos |-> 0, closedBy |-> <<>>]
    /\ deferred = FALSE
    /\ seen = "none"
    /\ firedAt = "never"
    /\ parseRet = [val |-> NoValue, err |-> NilErr]
    /\ date = <<>>
    /\ layout = <<>>
    /\ dParse = NoParse
    /\ dFormat = NoFormat
    /\ dMust = <<>>
    /\ dBack = NoBack
    /\ dDone = {}
    /\ mode \in {"concurrent", "sequence"}
    /\ octx = [j \in 1..NumOps |-> "active"]
    /\ \E f \in [OpIds -> OpInputs] :
         ops = [i \in OpIds |->
                  [f[i] EXCEPT !.ctx = IF mode = "concurrent" THEN i ELSE 1]]

OpsNext ==
    \/ \E i \in OpIds : Op_ReadWithClient(i)
    \/ \E i \in OpIds : Op_Respond(i)
    \/ \E i \in OpIds : Op_Abort(i)
    \/ \E i \in OpIds : Op_ParseRegular_Entry(i)
    \/ \E i \in OpIds : Op_ParseRegular_Decode(i)
    \/ \E j \in OpIds : Op_Cancel(j)
    \/ \E j \in OpIds : Op_DeadlineElapses(j)

OpsSpec == OpsInit /\ [][OpsNext]_vars

----------------------------------------------------------------------------
(* Properties *)

Returned == pc \in {"parsed", "done"}

FetchReturned == pc \notin {"idle", "inflight"}

\* C1: a response-owning reader (Regular, Atom) closes resp.Body exactly once
\* on every exit path (successful decode, decode error, context already
\* cancelled at entry): when it has returned the body holds one Close, made by
\* that reader, and while it decodes the body is still open.
C1_ReaderClosesBodyOnce ==
    plan.reader \in {"Regular", "Atom"} =>
        /\ pc = "parsed" => body.closedBy = <<plan.reader>>
        /\ pc \in {"call", "decoding"} => body.closedBy = <<>>

C1_Witness ==
    /\ pc = "parsed"
    /\ plan.reader = "Regular"
    /\ parseRet.err = NewError("XML syntax error")
    /\ body.closedBy = <<"Regular">>

\* C2: when the client returns a response whose status is outside 200..299,
\* ReadWithClient has closed that body when it returns, returns a nil response
\* and an error carrying the status code and the status text; the body is
\* never handed to the caller.
C2_BadStatusClosesBody ==
    (FetchReturned /\ doCalls = 1 /\ doRet.err = NilErr
        /\ (doRet.status < 200 \/ doRet.status >= 300)) =>
        /\ body.closedBy = <<"ReadWithClient">>
        /\ ~fetchRet.resp
        /\ fetchRet.err.code = doRet.status
        /\ fetchRet.err.status = StatusText(doRet.status)
        /\ pc \in {"fetched", "done"}

C2_Witness ==
    /\ pc = "fetched"
    /\ doRet.status = 404
    /\ doRet.err = NilErr
    /\ fetchRet.err.code = 404
    /\ body.closedBy = <<"ReadWithClient">>

\* C3: across the documented sequence (ReadWithClient succeeds, the caller
\* defers resp.Body.Close(), then passes the response to Regular or Atom) the
\* body is released exactly once when the caller is done.
C3_DocumentedSequenceClosesOnce ==
    (pc = "done" /\ plan.fetch /\ fetchRet.resp /\ plan.deferClose
        /\ plan.reader \in {"Regular", "Atom"}) =>
        Len(body.closedBy) = 1

\* C4: ParseRegular entered with a context that is already cancelled returns
\* at once with context.Canceled itself, a nil Channel, and no byte of the
\* stream consumed.
C4_ParseRegularFailsFast ==
    (plan.reader = "ParseRegular" /\ seen = "canceled") =>
        /\ Returned
        /\ parseRet.err = Canceled
        /\ parseRet.val = NoValue
        /\ body.pos = 0

C4_Witness ==
    /\ pc = "parsed"
    /\ plan.reader = "ParseRegular"
    /\ seen = "canceled"
    /\ doc = RSSDoc(1)
    /\ parseRet.err = Canceled

\* C5: the Atom decode (ParseAtom, and Atom on a response) entered with a
\* context that is already cancelled fails with context.Canceled itself,
\* returns no Feed and does not read the stream.
C5_ParseAtomFailsFast ==
    (plan.reader \in {"ParseAtom", "Atom"} /\ seen = "canceled") =>
        /\ Returned
        /\ parseRet.err = Canceled
        /\ parseRet.val = NoValue
        /\ body.pos = 0

C5_Witness ==
    /\ pc = "parsed"
    /\ plan.reader = "ParseAtom"
    /\ seen = "canceled"
    /\ doc = AtomDoc(1)
    /\ parseRet.err = Canceled

CtxAborted == FetchReturned /\ doRet.cause \in {"canceled", "deadline"}

\* C6 (as stated): when the context is cancelled or times out before the
\* request completes, ReadWithClient returns the cancellation/timeout error
\* itself, not wrapped into a fetch error.
C6_ReturnsCtxErrItself ==
    CtxAborted => fetchRet.err = CtxErr(doRet.cause)

\* C6 (amended): when the context is cancelled or times out before the request
\* completes, ReadWithClient returns a "failed to fetch URL" error that wraps
\* the cancellation/timeout error: the cause ends the wrapped chain, and the
\* returned error is not the context's error itself.
C6_ReturnsWrappedCtxErr ==
    CtxAborted =>
        /\ ~fetchRet.resp
        /\ fetchRet.err.msg = "failed to fetch URL"
        /\ fetchRet.err.cause # <<>>
        /\ fetchRet.err.cause[Len(fetchRet.err.cause)] = CtxErr(doRet.cause).msg
        /\ fetchRet.err # CtxErr(doRet.cause)

C6_Witness ==
    /\ pc = "fetched"
    /\ doRet.cause = "canceled"
    /\ firedAt = "inflight"
    /\ fetchRet.err.msg = "failed to fetch URL"

\* C7: a fetch that fails because of the context reports which cause fired:
\* after a cancellation no response and an error whose text holds "context
\* canceled", after an elapsed deadline no response and an error whose text
\* holds "context deadline exceeded"; neither is reported as the other.
C7_ReportsWhichCauseFired ==
    /\ (FetchReturned /\ doRet.cause = "canceled") =>
          /\ ~fetchRet.resp
          /\ Contains(fetchRet.err, "context canceled")
          /\ ~Contains(fetchRet.err, "context deadline exceeded")
    /\ (FetchReturned /\ doRet.cause = "deadline") =>
          /\ ~fetchRet.resp
          /\ Contains(fetchRet.err, "context deadline exceeded")
          /\ ~Contains(fetchRet.err, "context canceled")

C7_Witness ==
    /\ pc = "fetched"
    /\ firedAt = "idle"
    /\ doRet.cause = "canceled"
    /\ Contains(fetchRet.err, "context canceled")

\* C8: if the context is cancelled or its deadline elapses while the request
\* is in flight, the request is aborted and ReadWithClient eventually returns
\* an error, whether or not the server ever responds.
C8_InFlightCancelReturnsError ==
    (pc = "inflight" /\ CtxDone(ctx)) ~> (FetchReturned /\ ~fetchRet.resp /\ fetchRet.err # NilErr)

C8_Witness ==
    /\ pc = "fetched"
    /\ firedAt = "inflight"
    /\ doRet.cause = "deadline"
    /\ fetchRet.err # NilErr

\* C9 (as stated): if the cancellation fires during the decode, after
\* ParseRegular's entry check has passed, ParseRegular fails instead of
\* returning a Channel.
C9_CancelDuringDecodeFails ==
    (plan.reader = "ParseRegular" /\ firedAt = "decoding" /\ Returned) =>
        parseRet.err # NilErr

\* C9 (amended): ParseRegular looks at the context only at entry. If the
\* cancellation fires during the decode, ParseRegular returns what the decode
\* of the stream yields: the Channel for a well-formed document, an error for a
\* malformed one; it fails on a well-formed document only when a read of a
\* response body bound to the cancelled context fails.
C9_CancelDuringDecodeUnobserved ==
    (plan.reader = "ParseRegular" /\ firedAt = "decoding" /\ Returned) =>
        \/ parseRet = [val |-> DecodeChannel(doc).val, err |-> DecodeChannel(doc).err]
        \/ plan.fetch /\ parseRet = [val |-> NoValue, err |-> CtxErr(ctx)]

C9_Witness ==
    /\ pc = "parsed"
    /\ plan.reader = "ParseRegular"
    /\ ~plan.fetch
    /\ firedAt = "decoding"
    /\ parseRet.val.kind = "Channel"
    /\ parseRet.err = NilErr

\* C10: ReadWithClient called with an empty URL returns a nil response and the
\* error "URL cannot be empty", builds no request and never invokes the client.
C10_EmptyURLRejected ==
    (plan.fetch /\ url = "" /\ pc # "idle") =>
        /\ ~fetchRet.resp
        /\ fetchRet.err = NewError("URL cannot be empty")
        /\ ~req.built
        /\ doCalls = 0
        /\ doRet = NoResult

C10_Witness ==
    /\ plan.fetch
    /\ url = ""
    /\ pc = "fetched"
    /\ fetchRet.err = NewError("URL cannot be empty")
    /\ doCalls = 0

C12_SuccessIffStatus2xx ==
    (pc = "fetched" /\ doCalls = 1 /\ doRet.err = NilErr) =>
        /\ (fetchRet.resp /\ fetchRet.err = NilErr)
              <=> (200 <= doRet.status /\ doRet.status < 300)
        /\ fetchRet.resp <=> fetchRet.err = NilErr
        /\ fetchRet.resp => (body.closedBy = <<>> /\ body.pos = 0)

C12_Witness ==
    /\ pc = "fetched"
    /\ doRet.status = 299
    /\ fetchRet.resp
    /\ fetchRet.err = NilErr
    /\ body.closedBy = <<>>

\* C13: every request ReadWithClient hands to the client carries one of two
\* fixed user-agent values chosen by the reddit flag alone:
\* "go-rss:v1.0.0 (by /u/go-rss-user)" when it is true, "go-rss/1.0.0" when it
\* is false, whatever the URL and the context.
C13_UserAgentByRedditFlag ==
    doCalls >= 1 =>
        /\ req.built
        /\ reddit => req.ua = "go-rss:v1.0.0 (by /u/go-rss-user)"
        /\ ~reddit => req.ua = "go-rss/1.0.0"

C13_Witness ==
    /\ doCalls = 1
    /\ reddit
    /\ ctx = "canceled"
    /\ req.ua = "go-rss:v1.0.0 (by /u/go-rss-user)"

\* The records a decode must yield for the titles ts, in document order.
Expected(ts) == [i \in 1..Len(ts) |-> [title |-> <<ts[i]>>, date |-> <<>>]]

\* C19: for a well-formed RSS document whose channel holds N item elements,
\* ParseRegular (and Regular) succeeds and returns a Channel whose Item
\* sequence has exactly N records in document order: nothing reordered,
\* dropped or de-duplicated. (The call passed its entry check and the stream
\* is not a response body whose context fired while it was being read.)
C19_ItemsInDocumentOrder ==
    \A ts \in TitleSeqs :
        (doc = RSSFeed(ts) /\ plan.reader \in {"ParseRegular", "Regular"}
            /\ Returned /\ seen = "active"
            /\ ~(plan.fetch /\ firedAt = "decoding")) =>
            /\ parseRet.err = NilErr
            /\ parseRet.val.kind = "Channel"
            /\ Len(parseRet.val.items) = Len(ts)
            /\ parseRet.val.items = Expected(ts)

C19_Witness ==
    /\ pc = "parsed"
    /\ plan.reader = "ParseRegular"
    /\ doc = RSSFeed(<<"a", "a">>)
    /\ parseRet.err = NilErr
    /\ Len(parseRet.val.items) = 2

\* C20: for a well-formed Atom document whose feed holds N entry elements, the
\* Atom decode (ParseAtom, Atom) succeeds and returns a Feed whose Entry
\* sequence has exactly N records in document order.
C20_EntriesInDocumentOrder ==
    \A ts \in TitleSeqs :
        (doc = AtomFeed(ts) /\ plan.reader \in {"ParseAtom", "Atom"}
            /\ Returned /\ seen = "active"
            /\ ~(plan.fetch /\ firedAt = "decoding")) =>
            /\ parseRet.err = NilErr
            /\ parseRet.val.kind = "Feed"
            /\ Len(parseRet.val.items) = Len(ts)
            /\ parseRet.val.items = Expected(ts)

C20_Witness ==
    /\ pc = "parsed"
    /\ plan.reader = "Atom"
    /\ doc = AtomFeed(<<"b", "a">>)
    /\ parseRet.err = NilErr
    /\ parseRet.val.items = <<[title |-> <<"b">>, date |-> <<>>], [title |-> <<"a">>, date |-> <<>>]>>


----------------------------------------------------------------------------
(* Properties of Date *)

DateAccepted(l) == ParseWithFormat(date, l).err = NoDateErr

ParseOrder == <<wordpressDateFormat, RFC822, RFC3339>>

\* the seconds one unit of the layout's precision spans
Precision(l) ==
    IF l = DateOnly THEN 86400 ELSE IF l = RFC822 THEN 60 ELSE 1

\* C14: Date.Parse tries the WordPress layout, RFC 822 and RFC 3339 in that
\* order: the calls it made are a prefix of that list, every call before the
\* last one rejected the string, and when any of the three layouts accepts
\* the string Parse succeeds with the result of the first one that accepts.
C14_ParseTriesLayoutsInOrder ==
    "Parse" \in dDone =>
        /\ Len(dParse.tried) \in 1..3
        /\ \A i \in 1..Len(dParse.tried) : dParse.tried[i] = ParseOrder[i]
        /\ \A i \in 1..(Len(dParse.tried) - 1) : ~DateAccepted(ParseOrder[i])
        /\ \A i \in 1..3 :
              (DateAccepted(ParseOrder[i]) /\ \A j \in 1..(i - 1) : ~DateAccepted(ParseOrder[j]))
                  => /\ dParse.err = NoDateErr
                     /\ dParse.t = ParseWithFormat(date, ParseOrder[i]).t
                     /\ Len(dParse.tried) = i

\* Parse has returned a time for a string that only the second layout accepts.
C14_Witness ==
    /\ "Parse" \in dDone
    /\ ~DateAccepted(wordpressDateFormat)
    /\ DateAccepted(RFC822)
    /\ dParse.err = NoDateErr
    /\ dParse.tried = <<wordpressDateFormat, RFC822>>

\* C15: Date.Parse fails exactly when none of the three layouts accepts the
\* string, and the error it returns is the one of the RFC 3339 attempt, not
\* the one of the WordPress or the RFC 822 attempt.
C15_ParseFailsWithLastError ==
    "Parse" \in dDone =>
        /\ dParse.err # NoDateErr <=> \A i \in 1..3 : ~DateAccepted(ParseOrder[i])
        /\ dParse.err # NoDateErr =>
              /\ dParse.err = ParseWithFormat(date, RFC3339).err
              /\ dParse.err.layout = RFC3339
              /\ dParse.err # ParseWithFormat(date, wordpressDateFormat).err
              /\ dParse.err # ParseWithFormat(date, RFC822).err

\* Parse has failed on a string that is written in none of the three layouts.
C15_Witness ==
    /\ "Parse" \in dDone
    /\ date # <<>>
    /\ \A i \in 1..3 : ~DateAccepted(ParseOrder[i])
    /\ dParse.err # NoDateErr

\* C16: Date.MustFormat always returns a string: Format's string when Format
\* succeeds, and the non-empty text of the parse error when parsing fails.
C16_MustFormatNeverFails ==
    "MustFormat" \in dDone =>
        /\ dMust \in Seq([el : STRING, n : Int, s : STRING])
        /\ Format(date, layout).err = NoDateErr => dMust = Format(date, layout).s
        /\ Format(date, layout).err # NoDateErr =>
              /\ dMust = DateErrorText(Parse(date).err)
              /\ dMust # <<>>

\* MustFormat has returned the error text for a string that does not parse.
C16_Witness ==
    /\ "MustFormat" \in dDone
    /\ Parse(date).err # NoDateErr
    /\ dMust = DateErrorText(ParseError(RFC3339, "2006-01-02"))

\* C17: Date.Format(layout) returns the time Parse obtained, rendered in the
\* caller's layout, with a nil error when Parse succeeds, and the empty string
\* with Parse's error unchanged when Parse fails.
C17_FormatRendersParsedTime ==
    "Format" \in dDone =>
        IF Parse(date).err = NoDateErr
        THEN /\ dFormat.err = NoDateErr
             /\ dFormat.s = TimeFormat(Parse(date).t, layout)
        ELSE /\ dFormat.s = <<>>
             /\ dFormat.err = Parse(date).err

\* Format has rendered an RFC 3339 date as a day.
C17_Witness ==
    /\ "Format" \in dDone
    /\ DateAccepted(RFC3339)
    /\ layout = DateOnly
    /\ dFormat.err = NoDateErr
    /\ dFormat.s = TimeFormat(Parse(date).t, DateOnly)
    /\ dFormat.s # <<>>

----------------------------------------------------------------------------
(* Properties of the decoders *)

\* The Date a text of a feed is, as the Date methods read it.
DateOf(text) ==
    IF text = "Mon, 02 Jan 2006 15:04:05 -0700"
    THEN TimeFormat([y |-> 2006, d |-> 2, hm |-> 904, sec |-> 5, off |-> 0 - 420,
                     name |-> ""], wordpressDateFormat)
    ELSE <<Lex("text", 0, text)>>

\* C21: decoding never fails because of a date. Whatever texts, parseable or
\* not, the lastBuildDate and pubDate elements of a well-formed document hold,
\* ParseRegular succeeds, keeps every item, and the Date fields hold the texts
\* verbatim; an unparseable text is an error only for Date.Parse.
C21_DatesDecodeVerbatim ==
    \A lb \in DateTexts, ps \in DateSeqs :
        (doc = DatedFeed(lb, ps) /\ plan.reader = "ParseRegular" /\ Returned) =>
            /\ parseRet.err = NilErr
            /\ parseRet.val.kind = "Channel"
            /\ parseRet.val.built = <<lb>>
            /\ Len(parseRet.val.items) = Len(ps)
            /\ \A k \in 1..Len(ps) :
                  /\ parseRet.val.items[k].date = <<ps[k]>>
                  /\ parseRet.val.items[k].title = <<"a">>
            /\ \A t \in DateTexts :
                  Parse(DateOf(t)).err # NoDateErr <=> t = "not a date"

\* ParseRegular has returned a Channel whose dates are not dates.
C21_Witness ==
    /\ pc = "parsed"
    /\ plan.reader = "ParseRegular"
    /\ doc = DatedFeed("not a date", <<"Mon, 02 Jan 2006 15:04:05 -0700", "not a date">>)
    /\ parseRet.err = NilErr
    /\ parseRet.val.built = <<"not a date">>
    /\ parseRet.val.items[2].date = <<"not a date">>
    /\ Parse(DateOf("not a date")).err # NoDateErr

WellFormed(d) == Walk(d, 1, <<>>).ok

\* the reader ran its decode on the stream and no read of the stream failed
Decoded == Returned /\ seen = "active" /\ ~(plan.fetch /\ firedAt = "decoding")

\* C22: a decode either fully succeeds or fully fails. On a stream that is not
\* well-formed XML (plain text, an element that is never closed) ParseRegular,
\* Regular and the Atom decode return an error and a nil record; a record is
\* returned only with a nil error and then it is the whole decoded document.
C22_DecodeAllOrNothing ==
    (plan.reader # "none" /\ Decoded) =>
        /\ ~WellFormed(doc) => (parseRet.err # NilErr /\ parseRet.val = NoValue)
        /\ parseRet.err # NilErr => parseRet.val = NoValue
        /\ parseRet.val # NoValue =>
              /\ WellFormed(doc)
              /\ parseRet.val = (IF plan.reader \in {"ParseRegular", "Regular"}
                                 THEN DecodeChannel(doc).val ELSE DecodeFeed(doc).val)

\* The Atom decode has failed on plain text and returned no Feed.
C22_Witness ==
    /\ pc = "parsed"
    /\ plan.reader = "Atom"
    /\ doc = <<T("This is not valid XML")>>
    /\ parseRet.err = NewError("XML syntax error")
    /\ parseRet.val = NoValue

C24_ParseRegularLeavesReaderOpen ==
    /\ (plan.reader = "ParseRegular" /\ pc \in {"call", "decoding", "parsed"}) =>
          body.closedBy = <<>>
    /\ (plan.reader = "ParseRegular" /\ pc = "done" /\ seen # "none") =>
          body.closedBy = (IF deferred THEN <<"caller">> ELSE <<>>)
    /\ (plan.reader = "Regular" /\ pc = "parsed") => body.closedBy # <<>>

\* ParseRegular has returned a decode error and the reader is still open.
C24_Witness ==
    /\ pc = "parsed"
    /\ plan.reader = "ParseRegular"
    /\ ~plan.fetch
    /\ parseRet.err = NewError("XML syntax error")
    /\ body.pos > 0
    /\ body.closedBy = <<>>

\* C26: ParseRegular observes the context only at its entry. Once the entry
\* check has passed, a cancellation or an elapsed deadline is not observed by
\* the decode: the call returns what the stream yields, the decoded document
\* (or the syntax error of a malformed one), or the error of a read that
\* failed when the stream is a response body bound to that context.
C26_ContextObservedAtEntryOnly ==
    (plan.reader = "ParseRegular" /\ Returned /\ seen = "active") =>
        /\ ~plan.fetch =>
              parseRet = [val |-> DecodeChannel(doc).val, err |-> DecodeChannel(doc).err]
        /\ parseRet.err \in {Canceled, DeadlineExceeded} =>
              (plan.fetch /\ firedAt = "decoding")
        /\ parseRet.err \notin {Canceled, DeadlineExceeded} =>
              parseRet = [val |-> DecodeChannel(doc).val, err |-> DecodeChannel(doc).err]

\* The deadline has passed during the decode of a reader's stream and
\* ParseRegular has returned the Channel all the same.
C26_Witness ==
    /\ pc = "parsed"
    /\ plan.reader = "ParseRegular"
    /\ ~plan.fetch
    /\ seen = "active"
    /\ ctx = "deadline"
    /\ firedAt = "decoding"
    /\ doc = RSSFeed(<<"a", "b">>)
    /\ parseRet.err = NilErr
    /\ parseRet.val.items = Expected(<<"a", "b">>)

\* C27: every fetch and decode operation returns exactly one of a non-nil
\* result and a non-nil error: ReadWithClient a response or an error, the
\* readers (ParseRegular, Regular, ParseAtom, Atom) a record or an error,
\* never both and never neither.
C27_ResultXorError ==
    /\ (plan.fetch /\ FetchReturned) => (fetchRet.resp <=> fetchRet.err = NilErr)
    /\ (plan.reader # "none" /\ Returned /\ seen # "none") =>
          (parseRet.val # NoValue <=> parseRet.err = NilErr)

\* ReadWithClient has returned an error without a response for a 404, and in
\* another run Regular a Channel without an error.
C27_Witness ==
    \/ /\ pc = "fetched"
       /\ doRet.status = 300
       /\ ~fetchRet.resp
       /\ fetchRet.err.code = 300
    \/ /\ pc = "parsed"
       /\ plan.reader = "Regular"
       /\ doRet.status = 299
       /\ parseRet.val.kind = "Channel"
       /\ parseRet.err = NilErr

\* C28: in ReadWithClient the empty-URL check comes before anything looks at
\* the context: with an empty URL the call returns "URL cannot be empty",
\* never a context error, whatever the state of the context and the reddit
\* flag, and the context is attached to no request.
C28_EmptyURLBeforeContext ==
    (plan.fetch /\ url = "" /\ FetchReturned) =>
        /\ fetchRet.err = NewError("URL cannot be empty")
        /\ ~Contains(fetchRet.err, "context canceled")
        /\ ~Contains(fetchRet.err, "context deadline exceeded")
        /\ req.ctx = "none"

\* ReadWithClient was called with an empty URL and an expired context.
C28_Witness ==
    /\ plan.fetch
    /\ url = ""
    /\ reddit
    /\ ctx = "deadline"
    /\ firedAt = "idle"
    /\ pc = "fetched"
    /\ fetchRet.err = NewError("URL cannot be empty")

\* C29: ParseRegular does not check the root element or the rss/channel
\* envelope: for a well-formed document without a channel child under its
\* root, such as an Atom feed, it returns a nil error and a Channel with empty
\* fields and no item.
C29_NoEnvelopeCheck ==
    \A ts \in TitleSeqs :
        (doc = AtomFeed(ts) /\ plan.reader \in {"ParseRegular", "Regular"} /\ Decoded) =>
            /\ parseRet.err = NilErr
            /\ parseRet.val = [kind |-> "Channel", n |-> 0, items |-> <<>>, built |-> <<>>]

\* ParseRegular has returned an empty Channel for an Atom feed of two entries.
C29_Witness ==
    /\ pc = "parsed"
    /\ plan.reader = "ParseRegular"
    /\ doc = AtomFeed(<<"a", "b">>)
    /\ parseRet.err = NilErr
    /\ parseRet.val.kind = "Channel"
    /\ parseRet.val.n = 0

----------------------------------------------------------------------------
(* Properties of several calls *)

\* the error of call i comes from a context
OpCtxFailed(i) ==
    \/ Contains(ops[i].err, "context canceled")
    \/ Contains(ops[i].err, "context deadline exceeded")

\* what call i returns from its own arguments, server and reader when no
\* context fires
OpAlone(i) ==
    IF ops[i].fn = "ParseRegular"
    THEN [resp |-> FALSE, err |-> DecodeChannel(ops[i].doc).err,
          val |-> DecodeChannel(ops[i].doc).val]
    ELSE IF ops[i].url = ""
    THEN [resp |-> FALSE, err |-> NewError("URL cannot be empty"), val |-> NoValue]
    ELSE [resp |-> ops[i].ans = 200,
          err |-> IF ops[i].ans = 200 THEN NilErr
                  ELSE [msg |-> "HTTP %d: %s", code |-> ops[i].ans,
                        status |-> StatusText(ops[i].ans), cause |-> <<>>],
          val |-> NoValue]

OpResult(i) == [resp |-> ops[i].resp, err |-> ops[i].err, val |-> ops[i].val]

\* C25: calls that run side by side, each with its own context and client, do
\* not interfere: a call fails with a context error only when its own context
\* has fired, and then with the cause of its own context; while its own
\* context is live its result is the one its own arguments, server and reader
\* give, whatever happened to the contexts of the other calls.
C25_ConcurrentCallsIndependent ==
    mode = "concurrent" =>
        \A i \in OpIds :
            ops[i].pc = "done" =>
                /\ OpCtxFailed(i) =>
                      /\ octx[i] # "active"
                      /\ Contains(ops[i].err, CtxErr(octx[i]).msg)
                /\ octx[i] = "active" => OpResult(i) = OpAlone(i)

\* The first call failed on its cancelled context, the second one, started
\* after that cancellation, decoded its feed.
C25_Witness ==
    /\ mode = "concurrent"
    /\ octx = [j \in OpIds |-> IF j = 1 THEN "canceled" ELSE "active"]
    /\ ops[1].pc = "done"
    /\ OpCtxFailed(1)
    /\ ops[2].pc = "done"
    /\ ops[2].fn = "ParseRegular"
    /\ ops[2].at = "active"
    /\ ops[2].err = NilErr
    /\ ops[2].val.kind = "Channel"

\* C30: cancellation is sticky across a sequence of calls that share one
\* context. A call started after the context was cancelled or its deadline
\* passed fails: ParseRegular with the context's error itself and no Channel,
\* ReadWithClient with an error, no response and no answer taken from the
\* server; and every call after such a call starts with the context done.
C30_CancellationSticky ==
    mode = "sequence" =>
        \A i \in OpIds :
            /\ (ops[i].pc = "done" /\ ops[i].at \in {"canceled", "deadline"}) =>
                  /\ ops[i].err # NilErr
                  /\ ~ops[i].resp
                  /\ ops[i].val = NoValue
                  /\ ops[i].ans = 0
                  /\ ops[i].fn = "ParseRegular" => ops[i].err = CtxErr(ops[i].at)
                  /\ octx[1] = ops[i].at
            /\ \A k \in OpIds :
                  (i < k /\ ops[i].at \in {"canceled", "deadline"} /\ ops[k].at # "none")
                      => ops[k].at = ops[i].at

\* The deadline passed while the first call was decoding; the first call
\* returned its Channel and the second call, a ParseRegular, failed.
C30_Witness ==
    /\ mode = "sequence"
    /\ octx[1] = "deadline"
    /\ ops[1].at = "active"
    /\ ops[1].err = NilErr
    /\ ops[1].val.kind = "Channel"
    /\ ops[2].pc = "done"
    /\ ops[2].fn = "ParseRegular"
    /\ ops[2].doc = RSSDoc(1)
    /\ ops[2].at = "deadline"
    /\ ops[2].err = DeadlineExceeded

============================================================================
